---- MODULE Spec2Model ----
(***************************************************************************)
(* Model of the coaxial-cylinder field plotter: the geometry sampler       *)
(* (plot/cylinder.py, class CoaxialCylinder) and the field evaluator       *)
(* (plot/field.py, class DielectricField).                                 *)
(*                                                                         *)
(* Numbers.  The program computes in float64.  Here lengths are integers   *)
(* in micrometres; angles, cosines, direction ratios and unit-vector       *)
(* components are fixed point with FX units per 1.0; field components are  *)
(* integers in an arbitrary field unit.  Every division rounds, so a       *)
(* conversion (polar -> Cartesian -> radius) is not the identity.          *)
(*                                                                         *)
(* Arrays.  Every numpy array the program keeps or hands out lives in      *)
(* `heap` under a reference; `cache` and `ret` hold references, so that    *)
(* two holders of the same array see each other's writes.                  *)
(***************************************************************************)
EXTENDS Integers, Sequences, FiniteSets, TLC

VARIABLES
    geom,        \* the fields r_i, r_o, L, Delta of a caller's CoaxialCylinder
    cache,       \* its cached properties: references, or None
    heap,        \* the arrays of that instance and of its callers
    fcache,      \* the cached properties of DielectricField.coords
    fheap,       \* the arrays of DielectricField.coords
    ret,         \* the last operation, its arguments and its outcome; conv holds
                 \* the components calculate_field formed, sample by sample
    dirty,       \* the caller wrote into an array of the last outcome
    everMutated  \* the caller has written into a returned array

vars == <<geom, cache, heap, fcache, fheap, ret, dirty, everMutated>>

-----------------------------------------------------------------------------
(* Arithmetic                                                              *)

FX == 10000

\* np.pi as the rational PiNum / PiDen
PiNum == 355
PiDen == 113

Pi_fx == (PiNum * FX) \div PiDen
TwoPi_fx == (2 * PiNum * FX) \div PiDen
HalfPi_fx == (PiNum * FX) \div (2 * PiDen)

Abs(a) == IF a < 0 THEN -a ELSE a

Max(a, b) == IF a >= b THEN a ELSE b

\* Python's int(a / b) for b # 0: the quotient truncated towards zero
Trunc(a, b) ==
    IF (a >= 0) = (b > 0) THEN Abs(a) \div Abs(b) ELSE -(Abs(a) \div Abs(b))

\* a / b rounded to the nearest integer, b > 0
RoundDiv(a, b) == (2 * a + b) \div (2 * b)

\* cos on [0, pi/2] by its Taylor series, argument and result in fixed point
CosSeries(x) ==
    LET sq == (x * x) \div FX
        t1 == (FX * sq) \div (2 * FX)
        t2 == (t1 * sq) \div (12 * FX)
        t3 == (t2 * sq) \div (30 * FX)
        t4 == (t3 * sq) \div (56 * FX)
        t5 == (t4 * sq) \div (90 * FX)
    IN  FX - t1 + t2 - t3 + t4 - t5

\* np.cos for an angle in (-2 pi, 2 pi)
Cos(a) ==
    LET x == Abs(a)
        y == IF x > Pi_fx THEN TwoPi_fx - x ELSE x
    IN  IF y > HalfPi_fx THEN -CosSeries(Pi_fx - y) ELSE CosSeries(y)

\* np.sin
Sin(a) == Cos(a - HalfPi_fx)

\* one Newton step towards sqrt(n) from a guess g >= sqrt(n), g > 0
NewtonStep(n, g) == IF (g + n \div g) \div 2 < g THEN (g + n \div g) \div 2 ELSE g

\* the integer square root of n > 0 from a guess g with
\* sqrt(n) <= g <= 2 sqrt(n): six steps reach it
NewtonSqrt(n, g) ==
    NewtonStep(n, NewtonStep(n, NewtonStep(n,
        NewtonStep(n, NewtonStep(n, NewtonStep(n, g))))))

\* np.sqrt(a**2 + b**2), rounded down
Hypot(a, b) ==
    IF a = 0 /\ b = 0 THEN 0 ELSE NewtonSqrt(a * a + b * b, Abs(a) + Abs(b))

\* np.linalg.norm of a 3-vector, rounded down
Norm3(v) ==
    IF v[1] = 0 /\ v[2] = 0 /\ v[3] = 0 THEN 0
    ELSE NewtonSqrt(v[1] * v[1] + v[2] * v[2] + v[3] * v[3],
                    Abs(v[1]) + Abs(v[2]) + Abs(v[3]))

-----------------------------------------------------------------------------
(* numpy                                                                   *)

ValueError == "ValueError"
ZeroDivisionError == "ZeroDivisionError"
AttributeError == "AttributeError"

\* an ndarray is computed when it is made: the function, element by element
Array(f) == f \o <<>>

\* np.linspace refuses a negative number of samples
LinspaceRaises(num) == num < 0

\* np.linspace(start, stop, num, endpoint): num evenly spaced samples
Linspace(start, stop, num, endpoint) ==
    LET div == IF endpoint THEN num - 1 ELSE num
    IN  Array([k \in 1..num |->
                 IF endpoint /\ k = num /\ num > 1 THEN stop
                 ELSE IF div = 0 THEN start
                 ELSE start + RoundDiv((k - 1) * (stop - start), div)])

RECURSIVE Concat(_)
Concat(s) == IF s = <<>> THEN <<>> ELSE Head(s) \o Concat(Tail(s))

\* ndarray.ravel() of a 3-D array: row-major (C order) flattening
Ravel(a) == Concat([i \in DOMAIN a |-> Concat(a[i])])

\* np.meshgrid(r, theta, z) with the default indexing="xy": three arrays of
\* shape (len theta, len r, len z)
MeshgridXY(r, theta, z) ==
    [rr |-> [j \in DOMAIN theta |-> [i \in DOMAIN r |-> [k \in DOMAIN z |-> r[i]]]],
     tt |-> [j \in DOMAIN theta |-> [i \in DOMAIN r |-> [k \in DOMAIN z |-> theta[j]]]],
     zz |-> [j \in DOMAIN theta |-> [i \in DOMAIN r |-> [k \in DOMAIN z |-> z[k]]]]]

\* np.meshgrid(r, theta, z, indexing="ij"): three arrays of shape
\* (len r, len theta, len z)
Meshgrid(r, theta, z) ==
    [rr |-> [i \in DOMAIN r |-> [j \in DOMAIN theta |-> [k \in DOMAIN z |-> r[i]]]],
     tt |-> [i \in DOMAIN r |-> [j \in DOMAIN theta |-> [k \in DOMAIN z |-> theta[j]]]],
     zz |-> [i \in DOMAIN r |-> [j \in DOMAIN theta |-> [k \in DOMAIN z |-> z[k]]]]]

-----------------------------------------------------------------------------
(* CoaxialCylinder                                                         *)

None == "None"
NoExc == "none"

\* the smallest positive magnitude, standing for the floor 1e-15
Eps == 1

\* the estimated number of samples per axis
SampleEstimates(g) ==
    [N_r     |-> Trunc(g.r_o - g.r_i, g.Delta),
     N_theta |-> Trunc(PiNum * (g.r_i + g.r_o), PiDen * g.Delta),
     N_z     |-> Trunc(g.L, g.Delta)]

\* the estimates with the minimum resolution of the legacy script
MinResolutionLegacy(n) ==
    [N_r_min     |-> Max(n.N_r, 5),
     N_theta_min |-> Max(n.N_theta, 20),
     N_z_min     |-> Max(n.N_z, 5)]

\* the estimates, no minimum enforced
MinResolutionNone(n) ==
    [N_r_min |-> n.N_r, N_theta_min |-> n.N_theta, N_z_min |-> n.N_z]

\* the estimates with the minimum resolution enforced
MinResolution(n) ==
    [N_r_min     |-> Max(n.N_r, 10),
     N_theta_min |-> Max(n.N_theta, 20),
     N_z_min     |-> Max(n.N_z, 5)]

\* the angular samples, the endpoint included
AngularSamplesClosed(num) == Linspace(0, TwoPi_fx, num, TRUE)

\* the angular samples: np.linspace(0, 2 * np.pi, N_theta_min, endpoint=False)
AngularSamples(num) == Linspace(0, TwoPi_fx, num, FALSE)

\* the three axes for the sample counts n, or the exception np.linspace raises
axes(g, n) ==
    IF \/ LinspaceRaises(n.N_r_min)
       \/ LinspaceRaises(n.N_theta_min)
       \/ LinspaceRaises(n.N_z_min)
    THEN [exc |-> ValueError]
    ELSE [exc   |-> NoExc,
          r     |-> Linspace(g.r_i, g.r_o, n.N_r_min, TRUE),
          theta |-> AngularSamples(n.N_theta_min),
          z     |-> Linspace(-RoundDiv(g.L, 2), RoundDiv(g.L, 2), n.N_z_min, TRUE)]

\* the body of the property spaced_coordinates: the three axes, or the
\* exception the arithmetic raises
spaced_coordinates(g) ==
    IF g.Delta = 0 THEN [exc |-> ZeroDivisionError]
    ELSE axes(g, MinResolution(SampleEstimates(g)))

\* rr * np.cos(tt) on the 3-D grid
TimesCos(rr, tt) ==
    [i \in DOMAIN rr |-> [j \in DOMAIN rr[i] |-> [k \in DOMAIN rr[i][j] |->
        RoundDiv(rr[i][j][k] * Cos(tt[i][j][k]), FX)]]]

\* rr * np.sin(tt) on the 3-D grid
TimesSin(rr, tt) ==
    [i \in DOMAIN rr |-> [j \in DOMAIN rr[i] |-> [k \in DOMAIN rr[i][j] |->
        RoundDiv(rr[i][j][k] * Sin(tt[i][j][k]), FX)]]]

\* the flattened Cartesian coordinates of a mesh m
flat_points(m) ==
    [x_f |-> Ravel(TimesCos(m.rr, m.tt)),
     y_f |-> Ravel(TimesSin(m.rr, m.tt)),
     z_f |-> Ravel(m.zz)]

\* the body of the property points, from the three axes
points(r, theta, z) == flat_points(Meshgrid(r, theta, z))

\* the radii computed by the property rz_coordinates
rz_radius(x, y) == Array([i \in DOMAIN x |-> Hypot(x[i], y[i])])

\* an instance's store: the cached properties and the arrays they refer to
Store(c, h) == [cache |-> c, heap |-> h]

Raise(s, e) == [s |-> s, exc |-> e, val |-> <<>>]

Return(s, v) == [s |-> s, exc |-> NoExc, val |-> v]

\* functools.cached_property, first access: the body's result c is stored in
\* the instance and returned; an exception stores nothing
store_spaced_coordinates(s, c) ==
    IF c.exc # NoExc THEN Raise(s, c.exc)
    ELSE Return(Store([s.cache EXCEPT !.spaced_coordinates =
                                          <<"sc_r", "sc_theta", "sc_z">>],
                      [s.heap EXCEPT !["sc_r"] = c.r,
                                     !["sc_theta"] = c.theta,
                                     !["sc_z"] = c.z]),
                <<"sc_r", "sc_theta", "sc_z">>)

\* @cached_property spaced_coordinates: the stored tuple, or the body's
\* result stored on first access
get_spaced_coordinates(s, g) ==
    IF s.cache.spaced_coordinates # None
    THEN Return(s, s.cache.spaced_coordinates)
    ELSE store_spaced_coordinates(s, spaced_coordinates(g))

\* the flattened coordinates p stored as the property points
store_points(s, p) ==
    Return(Store([s.cache EXCEPT !.points = <<"pt_x", "pt_y", "pt_z">>],
                 [s.heap EXCEPT !["pt_x"] = p.x_f,
                                !["pt_y"] = p.y_f,
                                !["pt_z"] = p.z_f]),
           <<"pt_x", "pt_y", "pt_z">>)

\* the body of points after self.spaced_coordinates gave the outcome a
points_of(a) ==
    IF a.exc # NoExc THEN Raise(a.s, a.exc)
    ELSE store_points(a.s, points(a.s.heap[a.val[1]], a.s.heap[a.val[2]],
                                  a.s.heap[a.val[3]]))

\* @cached_property points
get_points(s, g) ==
    IF s.cache.points # None
    THEN Return(s, s.cache.points)
    ELSE points_of(get_spaced_coordinates(s, g))

\* the body of rz_coordinates after self.points gave the outcome p, the
\* radii overwriting the array x of points
rz_coordinates_in_place(p) ==
    IF p.exc # NoExc THEN Raise(p.s, p.exc)
    ELSE Return(Store([p.s.cache EXCEPT !.rz_coordinates = <<p.val[1], p.val[3]>>],
                      [p.s.heap EXCEPT ![p.val[1]] =
                           rz_radius(p.s.heap[p.val[1]], p.s.heap[p.val[2]])]),
                <<p.val[1], p.val[3]>>)

\* the body of rz_coordinates after self.points gave the outcome p: a new
\* array of radii and the array z of points itself
rz_coordinates_of(p) ==
    IF p.exc # NoExc THEN Raise(p.s, p.exc)
    ELSE Return(Store([p.s.cache EXCEPT !.rz_coordinates = <<"rz_r", p.val[3]>>],
                      [p.s.heap EXCEPT !["rz_r"] =
                           rz_radius(p.s.heap[p.val[1]], p.s.heap[p.val[2]])]),
                <<"rz_r", p.val[3]>>)

\* @cached_property rz_coordinates
get_rz_coordinates(s, g) ==
    IF s.cache.rz_coordinates # None
    THEN Return(s, s.cache.rz_coordinates)
    ELSE rz_coordinates_of(get_points(s, g))

\* numpy broadcasting of two 1-D shapes: equal lengths, or one of them 1
Broadcastable(m, n) == m = n \/ m = 1 \/ n = 1

\* a[i] of an array broadcast to a longer shape
At(a, i) == IF Len(a) = 1 THEN a[1] ELSE a[i]

\* the length of the elementwise product of two broadcastable 1-D arrays
BroadcastLen(m, n) == IF m = 1 THEN n ELSE m

\* Er * (x / r_safe): a field component times a direction ratio
Times(a, b) ==
    Array([i \in 1..BroadcastLen(Len(a), Len(b)) |->
             RoundDiv(At(a, i) * At(b, i), FX)])

\* np.sqrt(x**2 + y**2)
Radius(x, y) == Array([i \in DOMAIN x |-> Hypot(x[i], y[i])])

\* np.maximum(a, 1e-15)
Safe(a) == Array([i \in DOMAIN a |-> Max(a[i], Eps)])

\* x / r_safe, in fixed point
Ratio(x, r_safe) == Array([i \in DOMAIN x |-> RoundDiv(x[i] * FX, r_safe[i])])

\* np.vstack of 1-D arrays needs equal lengths
VStackRaises(a, b, c) == ~(Len(a) = Len(b) /\ Len(b) = Len(c))

\* np.vstack((a, b, c)).T: one row per point
VStackT(a, b, c) == Array([i \in DOMAIN a |-> <<a[i], b[i], c[i]>>])

\* np.linalg.norm(vectors, axis=1)
Norms(vectors) == Array([i \in DOMAIN vectors |-> Norm3(vectors[i])])

\* vectors / mag_safe[:, None], in fixed point
Unit(vectors, mag_safe) ==
    Array([i \in DOMAIN vectors |->
             [c \in 1..3 |-> RoundDiv(vectors[i][c] * FX, mag_safe[i])]])

\* the three results of to_cartesian from the stacked arrays
normalised(pts, vectors, mag) ==
    [exc |-> NoExc, points |-> pts,
     vectors_unit |-> Unit(vectors, Safe(mag)), mag |-> mag]

\* points, vectors and their norms
stacked(pts, vectors) == normalised(pts, vectors, Norms(vectors))

\* the Cartesian components stacked with Ez broadcast to their length, no
\* shape refused
vectors_of_broadcast(x, y, z, Ex, Ey, Ez) ==
    stacked(VStackT(x, y, z),
            Array([i \in DOMAIN Ex |-> <<Ex[i], Ey[i], At(Ez, i)>>]))

\* the Cartesian components stacked, or the exception np.vstack raises
vectors_of(x, y, z, Ex, Ey, Ez) ==
    IF VStackRaises(Ex, Ey, Ez) \/ VStackRaises(x, y, z)
    THEN [exc |-> ValueError]
    ELSE stacked(VStackT(x, y, z), VStackT(Ex, Ey, Ez))

\* the Cartesian components from the floored radius
components(x, y, z, Er, Ez, r_safe) ==
    vectors_of(x, y, z, Times(Er, Ratio(x, r_safe)),
               Times(Er, Ratio(y, r_safe)), Ez)

\* the arithmetic of to_cartesian on the flattened points: the exception it
\* raises, or points, unit vectors and magnitudes
cartesian_vectors(x, y, z, Er, Ez) ==
    IF ~Broadcastable(Len(Er), Len(x)) THEN [exc |-> ValueError]
    ELSE components(x, y, z, Er, Ez, Safe(Radius(x, y)))

\* the results c of the conversion written over the cached array x of
\* points, which is handed to the caller as the magnitudes
deliver_in_place(s, c) ==
    IF c.exc # NoExc THEN Raise(s, c.exc)
    ELSE Return(Store(s.cache,
                      [s.heap EXCEPT !["out_points"] = c.points,
                                     !["out_vectors_unit"] = c.vectors_unit,
                                     !["pt_x"] = c.mag]),
                <<"out_points", "out_vectors_unit", "pt_x">>)

\* the results c of the conversion handed to the caller as new arrays
deliver(s, c) ==
    IF c.exc # NoExc THEN Raise(s, c.exc)
    ELSE Return(Store(s.cache,
                      [s.heap EXCEPT !["out_points"] = c.points,
                                     !["out_vectors_unit"] = c.vectors_unit,
                                     !["out_mag"] = c.mag]),
                <<"out_points", "out_vectors_unit", "out_mag">>)

\* to_cartesian after self.points gave the outcome p
convert(p, Er, Ez) ==
    IF p.exc # NoExc THEN Raise(p.s, p.exc)
    ELSE deliver(p.s, cartesian_vectors(p.s.heap[p.val[1]], p.s.heap[p.val[2]],
                                        p.s.heap[p.val[3]], Er, Ez))

\* CoaxialCylinder.to_cartesian(Er, Ez)
to_cartesian(s, g, Er, Ez) ==
    IF Len(Er) # Len(Ez) THEN Raise(s, ValueError)
    ELSE convert(get_points(s, g), Er, Ez)

\* the attributes an instance of CoaxialCylinder has
CoaxialCylinderAttrs ==
    {"r_i", "r_o", "L", "Delta",
     "spaced_coordinates", "points", "rz_coordinates", "to_cartesian"}

\* self.coords.<name> for a property: its value, or AttributeError when the
\* class defines no such attribute
getattr_coords(s, g, name) ==
    IF name \notin CoaxialCylinderAttrs THEN Raise(s, AttributeError)
    ELSE IF name = "spaced_coordinates" THEN get_spaced_coordinates(s, g)
    ELSE IF name = "points" THEN get_points(s, g)
    ELSE get_rz_coordinates(s, g)

-----------------------------------------------------------------------------
(* DielectricField                                                         *)

\* permittivities in units of 1e-15 F/m
eps_0 == 8854
eps_g == eps_0
eps_d == 5 * eps_0

\* radii and length in micrometres, voltage in volts
r_a == 13500
r_d == 14800
r_b == 18000
L == 200000
V_0 == 10000

\* the default spatial resolution of CoaxialCylinder, in micrometres
DefaultDelta == 10000

\* np.log(a / b) for a, b > 0, in fixed point: 2 atanh((a - b) / (a + b))
Log(a, b) ==
    LET u  == RoundDiv((a - b) * FX, a + b)
        u2 == RoundDiv(u * u, FX)
        u3 == RoundDiv(u * u2, FX)
        u5 == RoundDiv(u3 * u2, FX)
        u7 == RoundDiv(u5 * u2, FX)
    IN  2 * (u + RoundDiv(u3, 3) + RoundDiv(u5, 5) + RoundDiv(u7, 7))

\* the class attribute geometric_factor, in fixed point
geometric_factor ==
    RoundDiv(eps_g * FX,
             RoundDiv(eps_g * Log(r_d, r_a) + eps_d * Log(r_b, r_d), FX))

\* the class attribute coords = CoaxialCylinder(r_a, r_b, L)
coords == [r_i |-> r_a, r_o |-> r_b, L |-> L, Delta |-> DefaultDelta]

\* a length in units of 0.1 mm, in which the squares of the field formulas
\* stay inside the integer range
Coarse(v) == RoundDiv(v, 100)

\* eps_d / eps_g, in fixed point
factor_diel == RoundDiv(eps_d * FX, eps_g)

\* np.where(mask_diel, E * factor_diel, E) for one sample
where_diel(mask_diel, E) ==
    IF mask_diel THEN RoundDiv(E * factor_diel, FX) ELSE E

\* V_0 * geometric_factor
VG == RoundDiv(V_0 * geometric_factor, FX)

\* Er of one sample by the gas formula
radial_component(r_safe, up, dn, d_up, d_dn) ==
    RoundDiv(RoundDiv(VG * RoundDiv(RoundDiv(up * FX, d_up)
                                    - RoundDiv(dn * FX, d_dn), 2), FX) * 10,
             r_safe)

\* Ez of one sample by the gas formula
axial_component(d_up, d_dn) == RoundDiv(VG * 10, d_dn) - RoundDiv(VG * 10, d_up)

\* the corrected components of one sample from its components Er, Ez by
\* the gas formula
corrected(mask_diel, Er, Ez) ==
    [Er |-> Er, Ez |-> Ez, mask_diel |-> mask_diel,
     Er_diel |-> where_diel(mask_diel, Er),
     Ez_diel |-> where_diel(mask_diel, Ez)]

\* the components of one sample from its floored radius r_safe (in 0.1 mm),
\* its distances up, dn to the two ends and their hypotenuses d_up, d_dn,
\* in V/mm, and the sample's dielectric mask
sample_components(mask_diel, r_safe, up, dn, d_up, d_dn) ==
    corrected(mask_diel, radial_component(r_safe, up, dn, d_up, d_dn),
              axial_component(d_up, d_dn))

\* the distances of one sample
sample_distances(mask_diel, r_safe, up, dn) ==
    sample_components(mask_diel, r_safe, up, dn,
                      Max(Hypot(r_safe, up), Eps), Max(Hypot(r_safe, dn), Eps))

\* the radial and axial components calculate_field forms for one sample at
\* radius r and height z
field_sample(r, z) ==
    sample_distances(Max(r, Eps) >= r_d, Max(Coarse(r), Eps),
                     Coarse(z + RoundDiv(L, 2)), Coarse(z - RoundDiv(L, 2)))

\* the components and masks of all samples
field_samples(r, z) == Array([i \in DOMAIN r |-> field_sample(r[i], z[i])])

\* what calculate_field leaves: the outcome t of the conversion and the
\* components f it passed
field_result(t, f) ==
    [s |-> t.s, exc |-> t.exc, val |-> t.val, samples |-> f]

\* return self.coords.to_cartesian(Er_diel, Ez_diel)
field_convert(s, f) ==
    field_result(to_cartesian(s, coords, [i \in DOMAIN f |-> f[i].Er_diel],
                              [i \in DOMAIN f |-> f[i].Ez_diel]), f)

\* calculate_field after self.coords.coordinates gave the outcome c
field_of(c) ==
    IF c.exc # NoExc THEN field_result(c, <<>>)
    ELSE field_convert(c.s, field_samples(c.s.heap[c.val[1]], c.s.heap[c.val[2]]))

\* DielectricField.calculate_field(): reads self.coords.coordinates, forms the
\* components of every sample and converts them
calculate_field(s) == field_of(getattr_coords(s, coords, "coordinates"))

-----------------------------------------------------------------------------
(* The program's state and its operations                                  *)

\* how many of the geometries of GeomList are explored
NGeoms == 3

Geom(ri, ro, len, d) == [r_i |-> ri, r_o |-> ro, L |-> len, Delta |-> d]

\* constructor arguments: a short shell at the minimum resolution, a shell
\* of zero spacing, a fine shell above the minimum radial and angular
\* resolution, a shell above the minimum axial resolution
GeomList ==
    << Geom(13500, 18000, 40000, 10000),
       Geom(13500, 18000, 40000, 0),
       Geom(4000, 26100, 6000, 2000),
       Geom(13500, 18000, 60000, 10000) >>

Geoms == {GeomList[i] : i \in 1..(IF NGeoms < Len(GeomList) THEN NGeoms
                                  ELSE Len(GeomList))}

\* the largest radius of the grid-only exploration, in steps of RadiusStep,
\* the thickness of the evaluator's shell
MaxRadiusK == 4
RadiusStep == r_b - r_a

\* constructor arguments of the grid-only exploration: every combination,
\* the evaluator's own (13500, 18000, 200000, 10000) and the degenerate ones
\* (r_o <= r_i, L <= 0, Delta <= 0) among them
GridGeoms ==
    {Geom(ri, ro, len, d) :
        ri \in {RadiusStep * k : k \in 0..MaxRadiusK},
        ro \in {RadiusStep * k : k \in 0..MaxRadiusK},
        len \in {-40000, 0, 3000, 40000, 200000},
        d \in {-10000, 0, 1000, 10000}}

Refs == {"sc_r", "sc_theta", "sc_z", "pt_x", "pt_y", "pt_z", "rz_r",
         "out_points", "out_vectors_unit", "out_mag"}

\* the number of grid points of a geometry (0 when it has no grid)
Product(n) == n.N_r_min * n.N_theta_min * n.N_z_min

GridSize(g) ==
    IF g.Delta = 0 THEN 0 ELSE Product(MinResolution(SampleEstimates(g)))

\* the lengths of the component arrays a caller passes: one sample, one per
\* grid point, one too many
InputLens(g) == {1, GridSize(g), GridSize(g) + 1} \ {0}

\* the component arrays a caller passes, by length
ErInput(n) == Array([i \in 1..n |-> ((7 * i) % 11) * 100 - 500])
EzInput(n) == Array([i \in 1..n |-> ((3 * i) % 7) * 100 - 300])

\* the value a caller writes into an array it was handed
Poison == 99999

NoArgs == [lenEr |-> 0, lenEz |-> 0]
NoConv == <<>>
EmptyCache == [spaced_coordinates |-> None, points |-> None,
               rz_coordinates |-> None]
EmptyHeap == [ref \in Refs |-> <<>>]

InitWith(geoms) ==
    /\ geom \in geoms
    /\ cache = EmptyCache
    /\ heap = EmptyHeap
    /\ fcache = EmptyCache
    /\ fheap = EmptyHeap
    /\ ret = [op |-> "init", args |-> NoArgs, exc |-> NoExc, val |-> <<>>,
              conv |-> NoConv]
    /\ dirty = FALSE
    /\ everMutated = FALSE

\* after CoaxialCylinder(r_i, r_o, L, Delta): the generated __init__ stores
\* the four fields and checks nothing
Init == InitWith(Geoms)

\* the outcome o of an operation on the caller's instance becomes the state
Outcome(op, args, o) ==
    /\ cache' = o.s.cache
    /\ heap' = o.s.heap
    /\ ret' = [op |-> op, args |-> args, exc |-> o.exc, val |-> o.val,
               conv |-> NoConv]
    /\ dirty' = FALSE

AccessSpacedCoordinates ==
    /\ Outcome("spaced_coordinates", NoArgs,
               get_spaced_coordinates(Store(cache, heap), geom))
    /\ UNCHANGED <<geom, fcache, fheap, everMutated>>

AccessPoints ==
    /\ Outcome("points", NoArgs, get_points(Store(cache, heap), geom))
    /\ UNCHANGED <<geom, fcache, fheap, everMutated>>

AccessRzCoordinates ==
    /\ Outcome("rz_coordinates", NoArgs,
               get_rz_coordinates(Store(cache, heap), geom))
    /\ UNCHANGED <<geom, fcache, fheap, everMutated>>

ToCartesian ==
    /\ \E m \in InputLens(geom), n \in InputLens(geom) :
          Outcome("to_cartesian", [lenEr |-> m, lenEz |-> n],
                  to_cartesian(Store(cache, heap), geom, ErInput(m), EzInput(n)))
    /\ UNCHANGED <<geom, fcache, fheap, everMutated>>

\* the outcome o of an operation on the evaluator becomes the state
FieldOutcome(o) ==
    /\ fcache' = o.s.cache
    /\ fheap' = o.s.heap
    /\ ret' = [op |-> "calculate_field", args |-> NoArgs, exc |-> o.exc,
               val |-> o.val,
               conv |-> o.samples]
    /\ dirty' = FALSE

\* DielectricField().calculate_field(), on the evaluator's own geometry
CalculateField ==
    /\ FieldOutcome(calculate_field(Store(fcache, fheap)))
    /\ UNCHANGED <<geom, cache, heap, everMutated>>

\* the array a with its first element overwritten by the caller
Overwritten(ref, a) ==
    [a EXCEPT ![1] = IF ref \in {"out_points", "out_vectors_unit"}
                     THEN <<Poison, Poison, Poison>> ELSE Poison]

\* the caller writes into one of the arrays the last conversion returned
CallerMutate ==
    /\ ret.op \in {"to_cartesian", "calculate_field"}
    /\ ret.exc = NoExc
    /\ ~dirty
    /\ \E k \in DOMAIN ret.val :
         IF ret.op = "to_cartesian"
         THEN /\ heap' = [heap EXCEPT ![ret.val[k]] = Overwritten(ret.val[k], @)]
              /\ fheap' = fheap
         ELSE /\ fheap' = [fheap EXCEPT ![ret.val[k]] = Overwritten(ret.val[k], @)]
              /\ heap' = heap
    /\ dirty' = TRUE
    /\ everMutated' = TRUE
    /\ UNCHANGED <<geom, cache, fcache, ret>>

Next ==
    \/ AccessSpacedCoordinates
    \/ AccessPoints
    \/ AccessRzCoordinates
    \/ ToCartesian
    \/ CalculateField
    \/ CallerMutate

Spec == Init /\ [][Next]_vars

\* grid generation alone, over every combination of constructor arguments
InitGrid == InitWith(GridGeoms)

NextGrid == AccessSpacedCoordinates

SpecGrid == InitGrid /\ [][NextGrid]_vars

-----------------------------------------------------------------------------
(* Properties                                                              *)

\* floor(a / b) for b # 0
Floor(a, b) == IF b > 0 THEN a \div b ELSE (-a) \div (-b)

\* the position, counted from 1, of sample (i_r, i_theta, i_z) in the
\* flattened arrays
FlatIndex(i_r, i_theta, i_z, N_theta, N_z) ==
    ((i_r - 1) * N_theta + (i_theta - 1)) * N_z + i_z

\* what a new instance of geometry g, nothing cached, gives for a property
Fresh(name, g) ==
    IF name = "spaced_coordinates"
    THEN get_spaced_coordinates(Store(EmptyCache, EmptyHeap), g)
    ELSE IF name = "points" THEN get_points(Store(EmptyCache, EmptyHeap), g)
    ELSE get_rz_coordinates(Store(EmptyCache, EmptyHeap), g)

\* the arrays an outcome o refers to
Arrays(o) == [i \in DOMAIN o.val |-> o.s.heap[o.val[i]]]

Properties == {"spaced_coordinates", "points", "rz_coordinates"}

\* every cached property holds what a new instance would compute
CacheIntact ==
    \A name \in Properties :
        cache[name] # None =>
            [i \in DOMAIN cache[name] |-> heap[cache[name][i]]]
                = Arrays(Fresh(name, geom))

\* the last conversion gave what a new instance would give for its arguments
ConversionAsFresh ==
    LET f == to_cartesian(Store(EmptyCache, EmptyHeap), geom,
                          ErInput(ret.args.lenEr), EzInput(ret.args.lenEz))
    IN  /\ ret.exc = f.exc
        /\ [i \in DOMAIN ret.val |-> heap[ret.val[i]]] = Arrays(f)

\* the references the cache holds
CachedRefs ==
    UNION {{cache[name][i] : i \in DOMAIN cache[name]} :
             name \in {n \in Properties : cache[n] # None}}

\* C1: calculate_field() returns four sequences (points, unit vectors,
\* magnitudes, region labels), each with one entry per grid point, the
\* product of the three clamped sample counts
C1_FourSequences ==
    ret.op = "calculate_field" =>
        /\ ret.exc = NoExc
        /\ Len(ret.val) = 4
        /\ \A i \in DOMAIN ret.val : Len(fheap[ret.val[i]]) = GridSize(coords)

\* C2: every sample has exactly one region label, and it is DIELECTRIC
\* exactly when the sample's radius is at least r_d
C2_RegionPartition ==
    ret.op = "calculate_field" =>
        /\ fcache.rz_coordinates # None
        /\ Len(ret.conv) = GridSize(coords)
        /\ \A i \in DOMAIN ret.conv :
              /\ ret.conv[i].mask_diel \in BOOLEAN
              /\ ret.conv[i].mask_diel
                    <=> (fheap[fcache.rz_coordinates[1]][i] >= r_d)

\* C3: calculate_field() passes to the conversion, for every sample, both
\* components times eps_d / eps_g when the sample's radius is at least r_d
\* and both components unchanged otherwise
C3_BothScaled ==
    ret.op = "calculate_field" =>
        /\ fcache.rz_coordinates # None
        /\ Len(ret.conv) = GridSize(coords)
        /\ \A i \in DOMAIN ret.conv :
              IF fheap[fcache.rz_coordinates[1]][i] >= r_d
              THEN /\ ret.conv[i].Er_diel = RoundDiv(ret.conv[i].Er * factor_diel, FX)
                   /\ ret.conv[i].Ez_diel = RoundDiv(ret.conv[i].Ez * factor_diel, FX)
              ELSE /\ ret.conv[i].Er_diel = ret.conv[i].Er
                   /\ ret.conv[i].Ez_diel = ret.conv[i].Ez

\* C4: the grid of every geometry has max(floor((r_o - r_i) / Delta), 10)
\* radial, max(floor(pi (r_i + r_o) / Delta), 20) angular and
\* max(floor(L / Delta), 5) axial samples; the evaluator's geometry has
\* 10, 20 and 20
C4_SampleCounts ==
    cache.spaced_coordinates # None =>
        /\ Len(heap["sc_r"]) = Max(Floor(geom.r_o - geom.r_i, geom.Delta), 10)
        /\ Len(heap["sc_theta"])
              = Max(Floor(PiNum * (geom.r_i + geom.r_o), PiDen * geom.Delta), 20)
        /\ Len(heap["sc_z"]) = Max(Floor(geom.L, geom.Delta), 5)
        /\ Len(heap["sc_r"]) >= 10
        /\ Len(heap["sc_theta"]) >= 20
        /\ Len(heap["sc_z"]) >= 5
        /\ geom = coords =>
              <<Len(heap["sc_r"]), Len(heap["sc_theta"]), Len(heap["sc_z"])>>
                 = <<10, 20, 20>>

\* the grid of the evaluator's geometry: the radial count clamped, the axial
\* count not
C4_Witness ==
    /\ ret.op = "spaced_coordinates"
    /\ geom = coords
    /\ cache.spaced_coordinates # None
    /\ Floor(geom.r_o - geom.r_i, geom.Delta) < 10
    /\ Len(heap["sc_z"]) > 5

\* the angular samples th start at 0, stay below 2 pi, increase, and are
\* evenly spaced up to rounding, the step from the last back to 2 pi included
EvenlyOverCircle(th) ==
    /\ th[1] = 0
    /\ \A k \in DOMAIN th : 0 <= th[k] /\ th[k] < TwoPi_fx
    /\ \A k \in 1..(Len(th) - 1) :
          /\ th[k] < th[k + 1]
          /\ Abs((th[k + 1] - th[k]) * Len(th) - TwoPi_fx) <= Len(th)
    /\ Abs((TwoPi_fx - th[Len(th)]) * Len(th) - TwoPi_fx) <= Len(th)

\* no two points of one ring (one radius r > 0, one height) coincide
RingsDistinct(r, theta, z, x, y) ==
    \A i_r \in DOMAIN r, i_z \in DOMAIN z :
        r[i_r] > 0 =>
            \A j1, j2 \in DOMAIN theta :
                j1 < j2 =>
                    <<x[FlatIndex(i_r, j1, i_z, Len(theta), Len(z))],
                      y[FlatIndex(i_r, j1, i_z, Len(theta), Len(z))]>>
                    # <<x[FlatIndex(i_r, j2, i_z, Len(theta), Len(z))],
                        y[FlatIndex(i_r, j2, i_z, Len(theta), Len(z))]>>

\* C5: the angular samples are evenly spaced from 0 and never reach 2 pi,
\* and no two of the points the property points gives, of the same radius
\* and height, coincide
C5_AngularSamples ==
    /\ cache.spaced_coordinates # None => EvenlyOverCircle(heap["sc_theta"])
    /\ (ret.op = "points" /\ ret.exc = NoExc) =>
          RingsDistinct(heap["sc_r"], heap["sc_theta"], heap["sc_z"],
                        heap[ret.val[1]], heap[ret.val[2]])

\* the points of a grid with more than the minimum of angular samples
C5_Witness ==
    /\ ret.op = "points"
    /\ cache.points # None
    /\ Len(heap["sc_theta"]) > 20
    /\ geom.r_i > 0

\* a configuration the specification calls degenerate
Degenerate(g) == g.r_o <= g.r_i \/ g.L <= 0 \/ g.Delta <= 0

C7_ShapeMismatch ==
    (ret.op = "to_cartesian" /\ geom.Delta # 0) =>
        /\ ret.exc \in {NoExc, ValueError}
        /\ ret.exc = NoExc <=> /\ ret.args.lenEr = ret.args.lenEz
                               /\ ret.args.lenEr = GridSize(geom)
        /\ ret.exc = NoExc =>
              \A i \in DOMAIN ret.val : Len(heap[ret.val[i]]) = GridSize(geom)
        /\ ret.exc # NoExc => ret.val = <<>>

\* Er and Ez agree with each other and not with the grid
C7_Witness ==
    /\ ret.op = "to_cartesian"
    /\ ret.exc = ValueError
    /\ ret.args.lenEr = ret.args.lenEz
    /\ ret.args.lenEr # GridSize(geom)
    /\ cache.points # None

\* how far a radius recomputed from rounded x and y may be from the sample's
RadiusTol == 6

\* how far a recomputed field magnitude or component may be from the input's
FieldTol == 2

\* the flattened points are the outer product of the axes in the order of
\* FlatIndex
OuterProduct(r, theta, z, x, y, z_f) ==
    /\ Len(x) = Len(r) * Len(theta) * Len(z)
    /\ Len(y) = Len(x)
    /\ Len(z_f) = Len(x)
    /\ \A i_r \in DOMAIN r, i_theta \in DOMAIN theta, i_z \in DOMAIN z :
          LET i == FlatIndex(i_r, i_theta, i_z, Len(theta), Len(z))
          IN  /\ x[i] = RoundDiv(r[i_r] * Cos(theta[i_theta]), FX)
              /\ y[i] = RoundDiv(r[i_r] * Sin(theta[i_theta]), FX)
              /\ z_f[i] = z[i_z]

\* position i of rz_coordinates is the radius and height of sample i
RzAligned(r, theta, z, rz_r, rz_z) ==
    /\ Len(rz_r) = Len(r) * Len(theta) * Len(z)
    /\ Len(rz_z) = Len(rz_r)
    /\ \A i_r \in DOMAIN r, i_theta \in DOMAIN theta, i_z \in DOMAIN z :
          LET i == FlatIndex(i_r, i_theta, i_z, Len(theta), Len(z))
          IN  /\ Abs(rz_r[i] - r[i_r]) <= RadiusTol
              /\ rz_z[i] = z[i_z]

\* position i of the results of a conversion is point i with the field
\* (Er[i], Ez[i]): its magnitude, its axial and its radial direction
ResultsAligned(x, y, z_f, Er, Ez, pts, unit, mag) ==
    \A i \in DOMAIN x :
        /\ pts[i] = <<x[i], y[i], z_f[i]>>
        /\ Abs(mag[i] - Hypot(Er[i], Ez[i])) <= FieldTol
        /\ Abs(RoundDiv(unit[i][3] * mag[i], FX) - Ez[i]) <= FieldTol
        /\ Abs(RoundDiv(RoundDiv(unit[i][1] * x[i] + unit[i][2] * y[i],
                                 Max(Hypot(x[i], y[i]), Eps)) * mag[i], FX)
               - Er[i]) <= FieldTol

\* C8: the point at flat index (i_r * N_theta + i_theta) * N_z + i_z is
\* (r[i_r] cos theta[i_theta], r[i_r] sin theta[i_theta], z[i_z]), and the
\* same position of rz_coordinates, of the unit vectors and of the
\* magnitudes belongs to that sample
C8_FlatOrder ==
    /\ cache.points # None =>
          OuterProduct(heap["sc_r"], heap["sc_theta"], heap["sc_z"],
                       heap["pt_x"], heap["pt_y"], heap["pt_z"])
    /\ cache.rz_coordinates # None =>
          RzAligned(heap["sc_r"], heap["sc_theta"], heap["sc_z"],
                    heap[cache.rz_coordinates[1]], heap[cache.rz_coordinates[2]])
    /\ (ret.op = "to_cartesian" /\ ret.exc = NoExc /\ ~dirty) =>
          ResultsAligned(heap["pt_x"], heap["pt_y"], heap["pt_z"],
                         ErInput(ret.args.lenEr), EzInput(ret.args.lenEz),
                         heap[ret.val[1]], heap[ret.val[2]], heap[ret.val[3]])

\* a conversion on a grid whose three counts differ, rz_coordinates cached
C8_Witness ==
    /\ ret.op = "to_cartesian"
    /\ ret.exc = NoExc
    /\ ~dirty
    /\ cache.rz_coordinates # None
    /\ Len(heap["sc_r"]) # Len(heap["sc_theta"])
    /\ Len(heap["sc_theta"]) # Len(heap["sc_z"])
    /\ Len(heap["sc_r"]) # Len(heap["sc_z"])

\* C9: whatever was accessed before, a property or a conversion gives what
\* a new instance of the same r_i, r_o, L and Delta gives, and
\* calculate_field ends as on a new evaluator
C9_CachingNeutral ==
    /\ CacheIntact
    /\ ret.op \in Properties =>
          /\ ret.exc = Fresh(ret.op, geom).exc
          /\ ret.exc = NoExc => ret.val = cache[ret.op]
    /\ (ret.op = "to_cartesian" /\ ~dirty) => ConversionAsFresh
    /\ ret.op = "calculate_field" =>
          ret.exc = calculate_field(Store(EmptyCache, EmptyHeap)).exc

\* points read again after rz_coordinates was cached
C9_Witness ==
    /\ ret.op = "points"
    /\ ret.exc = NoExc
    /\ cache.rz_coordinates # None
    /\ cache.spaced_coordinates # None

\* the arrays a conversion returned are none of the cached ones, the cached
\* ones hold what a new instance computes whatever the caller wrote, and a
\* conversion after the caller's write gives what a new instance gives
ReturnedApart ==
    /\ CacheIntact
    /\ (ret.op \in {"to_cartesian", "calculate_field"} /\ ret.exc = NoExc) =>
          {ret.val[i] : i \in DOMAIN ret.val} \cap CachedRefs = {}
    /\ (everMutated /\ ret.op = "to_cartesian" /\ ~dirty) => ConversionAsFresh

\* a step leaves the fields of the geometry alone and, of a property
\* already cached, the references and the arrays
CachedFrame ==
    /\ geom' = geom
    /\ \A name \in Properties :
          cache[name] # None =>
              /\ cache'[name] = cache[name]
              /\ \A i \in DOMAIN cache[name] :
                    heap'[cache[name][i]] = heap[cache[name][i]]

\* C10: the arrays to_cartesian / calculate_field return share nothing with
\* the cached grid; no step changes r_i, r_o, L, Delta or a cached array;
\* a caller's write into a returned array changes no later result
C10_FreshResults == []ReturnedApart /\ [][CachedFrame]_vars

\* a conversion that succeeded after the caller wrote into an earlier result
C10_Witness ==
    /\ everMutated
    /\ ~dirty
    /\ ret.op = "to_cartesian"
    /\ ret.exc = NoExc
    /\ cache.points # None

====
